---- MODULE Spec2Model ----
(***************************************************************************)
(* Model of src/contactbook.py: the ContactBook class (an in-memory dict   *)
(* of contacts backed by one JSON file) and its interactive menu loop.     *)
(*                                                                         *)
(* Strings are sequences of code points, so that str.strip, str.lower,     *)
(* the substring test `in` and the ordering used by sorted() are computed  *)
(* as Python computes them.  A dict is the sequence of its items in        *)
(* insertion order (keys pairwise distinct).                               *)
(***************************************************************************)
EXTENDS Naturals, Integers, Sequences, FiniteSets

VARIABLES
    file,       \* content of self.filename on disk
    contacts,   \* self.contacts
    pc,         \* "load", "menu", "continue", "exited" or "crashed"
    op,         \* the step of the program that ran last
    inp,        \* the lines that step read from stdin at the handlers' prompts
    outcome,    \* the last message a handler printed
    shown,      \* the table rows that step printed
    count       \* <<n>> when that step printed "Total contacts: n" or
                \* "Found n match(es)", <<>> when it printed neither

vars == <<file, contacts, pc, op, inp, outcome, shown, count>>

----------------------------------------------------------------------------
(* Bounds of the model *)

MaxContacts == 2        \* an add that would succeed is explored only while
                        \* the dict holds fewer contacts than this
MaxFileMembers == 2     \* members of the JSON object found at start-up

----------------------------------------------------------------------------
(* Python str operations *)

SetMin(S) == CHOOSE x \in S : \A y \in S : x <= y
SetMax(S) == CHOOSE x \in S : \A y \in S : x >= y

\* str.isspace for the characters used here: space and tab
IsSpace(c) == c \in {32, 9}

\* str.strip(): drop leading and trailing whitespace
strip(s) ==
    LET keep == {i \in 1..Len(s) : ~IsSpace(s[i])}
    IN  IF keep = {} THEN <<>> ELSE SubSeq(s, SetMin(keep), SetMax(keep))

LowerChar(c) == IF c >= 65 /\ c <= 90 THEN c + 32 ELSE c

\* str.lower()
lower(s) == [i \in 1..Len(s) |-> LowerChar(s[i])]

\* sub in s
contains(sub, s) ==
    \E i \in 0..(Len(s) - Len(sub)) : SubSeq(s, i + 1, i + Len(sub)) = sub

\* a < b on str: lexicographic by code point
StrLess(a, b) ==
    LET n == IF Len(a) < Len(b) THEN Len(a) ELSE Len(b)
        diff == {i \in 1..n : a[i] # b[i]}
    IN  IF diff = {} THEN Len(a) < Len(b)
        ELSE a[SetMin(diff)] < b[SetMin(diff)]

----------------------------------------------------------------------------
(* Python dict operations on a sequence of items [name, details] *)

keys(items) == [i \in 1..Len(items) |-> items[i].name]

Range(seq) == {seq[i] : i \in 1..Len(seq)}

\* d[k] = v : an existing key keeps its position, a new key goes last
dict_set(items, k, v) ==
    IF k \in Range(keys(items))
    THEN [i \in 1..Len(items) |->
            IF items[i].name = k THEN [name |-> k, details |-> v] ELSE items[i]]
    ELSE Append(items, [name |-> k, details |-> v])

\* del d[k]
dict_del(items, k) ==
    LET i == CHOOSE j \in 1..Len(items) : items[j].name = k
    IN  SubSeq(items, 1, i - 1) \o SubSeq(items, i + 1, Len(items))

\* d[k]
dict_get(items, k) ==
    items[CHOOSE j \in 1..Len(items) : items[j].name = k].details

----------------------------------------------------------------------------
(* The JSON file.  Its content is one of                                   *)
(*   [kind |-> "missing"]      no such file                                *)
(*   [kind |-> "unparseable"]  text json.load rejects (JSONDecodeError)    *)
(*   [kind |-> "unreadable"]   open() or the decoding of the bytes fails   *)
(*                             (PermissionError, UnicodeDecodeError)       *)
(*   [kind |-> "array"]        a JSON document that is a list              *)
(*   [kind |-> "object"]       a JSON object; members in document order,   *)
(*                             a name may occur more than once             *)
(* A Python value is [type |-> "dict" or "list", items |-> its items].     *)

RECURSIVE object_pairs(_, _)
\* the dict json.load builds from the members of an object: a repeated
\* name keeps its first position and takes its last value
object_pairs(members, acc) ==
    IF members = <<>> THEN acc
    ELSE object_pairs(Tail(members),
                      dict_set(acc, Head(members).name, Head(members).details))

\* json.load(file) for a document that parses
json_load(f) ==
    IF f.kind = "object"
    THEN [type |-> "dict", items |-> object_pairs(f.members, <<>>)]
    ELSE [type |-> "list", items |-> f.members]

\* json.dump(value, file, indent=2)
json_dump(c) ==
    IF c.type = "dict"
    THEN [kind |-> "object", members |-> c.items]
    ELSE [kind |-> "array", members |-> c.items]

\* a save that writes the record added or changed last instead of the store
save_contacts_last_record_only(c) ==
    [kind |-> "object",
     members |-> IF c.items = <<>> THEN <<>> ELSE <<c.items[Len(c.items)]>>]

\* save_contacts: the file is opened with 'w' and holds the whole store
save_contacts(c) == json_dump(c)

\* load_contacts: the value of self.contacts after it, "raise" when the
\* exception is not one of the two the except clause names
load_contacts(f, current) ==
    IF f.kind = "missing" THEN current
    ELSE IF f.kind = "unparseable" THEN [type |-> "dict", items |-> <<>>]
    ELSE IF f.kind = "unreadable" THEN [type |-> "raise", items |-> <<>>]
    ELSE json_load(f)

----------------------------------------------------------------------------
(* The pure parts of the handlers *)

\* name.lower() in [k.lower() for k in self.contacts.keys()]
name_exists(items, name) ==
    \E i \in 1..Len(items) : lower(items[i].name) = lower(name)

\* the for/break loop of update_contact and delete_contact followed by
\* `if not actual_name`: the index of the first key equal to name ignoring
\* case, 0 when there is none or when that key is the empty string
find_contact(items, name) ==
    LET hits == {i \in 1..Len(items) : lower(items[i].name) = lower(name)}
    IN  IF hits = {} THEN 0
        ELSE IF items[SetMin(hits)].name = <<>> THEN 0
        ELSE SetMin(hits)

\* the test of the search loop, query already stripped and lowercased
is_match(query, item) ==
    \/ contains(query, lower(item.name))
    \/ contains(query, item.details.phone)
    \/ contains(query, lower(item.details.email))

\* matches, in the iteration order of the dict
search_matches(items, query) ==
    SelectSeq(items, LAMBDA it : is_match(query, it))

RECURSIVE sorted(_)
\* sorted(self.contacts.items()): ascending by key, code point order
sorted(items) ==
    IF items = <<>> THEN <<>>
    ELSE LET m == CHOOSE i \in 1..Len(items) :
                    \A j \in 1..Len(items) :
                        ~StrLess(items[j].name, items[i].name)
         IN  <<items[m]>> \o
             sorted(SubSeq(items, 1, m - 1) \o SubSeq(items, m + 1, Len(items)))

\* "Update only if new values provided"
updated_details(current, new_phone, new_email, new_address) ==
    [phone   |-> IF new_phone # <<>> THEN new_phone ELSE current.phone,
     email   |-> IF new_email # <<>> THEN new_email ELSE current.email,
     address |-> IF new_address # <<>> THEN new_address ELSE current.address]

\* confirm == 'y' or confirm == 'yes', confirm already stripped and lowercased
is_confirmed(confirm) ==
    confirm = <<121>> \/ confirm = <<121, 101, 115>>

\* `not self.contacts`
is_empty(c) == Len(c.items) = 0

----------------------------------------------------------------------------
(* Lines typed at the prompts *)

\* "1".."6", " 6 ", "7", "", "a"
ChoiceInputs ==
    {<<49>>, <<50>>, <<51>>, <<52>>, <<53>>, <<54>>, <<32, 54, 32>>,
     <<55>>, <<>>, <<97>>}

\* "", " ", "A", "a", "B", " a "
NameInputs == {<<>>, <<32>>, <<65>>, <<97>>, <<66>>, <<32, 97, 32>>}

\* "", "1", " A"
PhoneInputs == {<<>>, <<49>>, <<32, 65>>}

\* "", "Ab"
EmailInputs == {<<>>, <<65, 98>>}

\* "", "a "
AddressInputs == {<<>>, <<97, 32>>}

\* "", "a", " A", "b", "ab", "1"
QueryInputs == {<<>>, <<97>>, <<32, 65>>, <<98>>, <<97, 98>>, <<49>>}

\* "y", " Y", "yes", "YES ", "n", "", "ye"
ConfirmInputs ==
    {<<121>>, <<32, 89>>, <<121, 101, 115>>, <<89, 69, 83, 32>>,
     <<110>>, <<>>, <<121, 101>>}

\* the lines that run() takes for the menu choice k: choice.strip() == k
Choices(k) == {c \in ChoiceInputs : strip(c) = k}

\* the marker of a prompt the handler did not reach
NotAsked == <<0>>

NoInput ==
    [choice |-> NotAsked, name |-> NotAsked, phone |-> NotAsked,
     email |-> NotAsked, address |-> NotAsked, query |-> NotAsked,
     confirm |-> NotAsked]

----------------------------------------------------------------------------
(* What the file may hold when the program starts *)

FileNames == {<<65>>, <<97>>, <<66>>}

FileDetails ==
    {[phone |-> <<49>>, email |-> <<>>, address |-> <<>>],
     [phone |-> <<65>>, email |-> <<65, 98>>, address |-> <<97>>]}

FileMembers == [name : FileNames, details : FileDetails]

SeqsUpTo(S, n) == UNION {[1..k -> S] : k \in 0..n}

\* a list of at most one element that is not a contact
ArrayElements == {<<>>, <<[scalar |-> 1]>>}

InitialFiles ==
    {[kind |-> k, members |-> <<>>] : k \in {"missing", "unparseable", "unreadable"}}
    \cup {[kind |-> "array", members |-> m] : m \in ArrayElements}
    \cup {[kind |-> "object", members |-> m] : m \in SeqsUpTo(FileMembers, MaxFileMembers)}

----------------------------------------------------------------------------
(* The program *)

Report(o, i, oc, sh, ct) ==
    /\ op' = o
    /\ inp' = i
    /\ outcome' = oc
    /\ shown' = sh
    /\ count' = ct

\* an uncaught exception unwinds run() and main(): the process ends
Crash(o, i, exc) ==
    /\ pc' = "crashed"
    /\ Report(o, i, exc, <<>>, <<>>)
    /\ UNCHANGED <<file, contacts>>

\* a handler that returns without touching the store
Return(o, i, oc, sh, ct) ==
    /\ pc' = "continue"
    /\ Report(o, i, oc, sh, ct)
    /\ UNCHANGED <<file, contacts>>

\* a handler that assigns the store, calls save_contacts and returns
Commit(o, i, oc, items) ==
    /\ pc' = "continue"
    /\ contacts' = [type |-> "dict", items |-> items]
    /\ file' = save_contacts(contacts')
    /\ Report(o, i, oc, <<>>, <<>>)

\* __init__ has set self.contacts = {} and is about to call load_contacts
Init ==
    /\ file \in InitialFiles
    /\ contacts = [type |-> "dict", items |-> <<>>]
    /\ pc = "load"
    /\ op = "init"
    /\ inp = NoInput
    /\ outcome = "none"
    /\ shown = <<>>
    /\ count = <<>>

Load ==
    /\ pc = "load"
    /\ LET c == load_contacts(file, contacts)
       IN  IF c.type = "raise"
           THEN Crash("load", NoInput, "OSError")
           ELSE /\ contacts' = c
                /\ pc' = "menu"
                /\ Report("load", NoInput, "welcome", <<>>, <<>>)
                /\ UNCHANGED file

\* choice '1' with the lines typed at the prompts of add_contact
add_contact(choice, raw_name, raw_phone, raw_email, raw_address) ==
    LET name == strip(raw_name)
        phone == strip(raw_phone)
        email == strip(raw_email)
        address == strip(raw_address)
        i1 == [NoInput EXCEPT !.choice = choice, !.name = raw_name]
        i2 == [i1 EXCEPT !.phone = raw_phone, !.email = raw_email,
                         !.address = raw_address]
    IN  /\ pc = "menu"
        /\ IF name = <<>>
           THEN Return("add", i1, "name_empty", <<>>, <<>>)
           ELSE IF contacts.type # "dict"
           THEN Crash("add", i1, "AttributeError")
           ELSE IF name_exists(contacts.items, name)
           THEN Return("add", i1, "duplicate", <<>>, <<>>)
           ELSE IF phone = <<>>
           THEN Return("add", i2, "phone_required", <<>>, <<>>)
           ELSE /\ Len(contacts.items) < MaxContacts
                /\ Commit("add", i2, "added",
                          dict_set(contacts.items, name,
                                   [phone |-> phone, email |-> email,
                                    address |-> address]))

AddContact ==
    \E choice \in Choices(<<49>>), raw_name \in NameInputs, raw_phone \in PhoneInputs,
       raw_email \in EmailInputs, raw_address \in AddressInputs :
        add_contact(choice, raw_name, raw_phone, raw_email, raw_address)

\* choice '2'
view_contacts(choice) ==
    LET i1 == [NoInput EXCEPT !.choice = choice]
    IN  /\ pc = "menu"
        /\ IF is_empty(contacts)
           THEN Return("view", i1, "no_contacts", <<>>, <<>>)
           ELSE IF contacts.type # "dict"
           THEN Crash("view", i1, "AttributeError")
           ELSE Return("view", i1, "listed", sorted(contacts.items),
                       <<Len(contacts.items)>>)

ViewContacts == \E choice \in Choices(<<50>>) : view_contacts(choice)

\* choice '3' with the line typed at the prompt of search_contact
search_contact(choice, raw_query) ==
    LET query == lower(strip(raw_query))
        i1 == [NoInput EXCEPT !.choice = choice]
        i2 == [i1 EXCEPT !.query = raw_query]
        matches == search_matches(contacts.items, query)
    IN  /\ pc = "menu"
        /\ IF is_empty(contacts)
           THEN Return("search", i1, "no_contacts", <<>>, <<>>)
           ELSE IF query = <<>>
           THEN Return("search", i2, "query_empty", <<>>, <<>>)
           ELSE IF contacts.type # "dict"
           THEN Crash("search", i2, "AttributeError")
           ELSE IF matches # <<>>
           THEN Return("search", i2, "found", matches, <<Len(matches)>>)
           ELSE Return("search", i2, "no_match", <<>>, <<>>)

SearchContact ==
    \E choice \in Choices(<<51>>), raw_query \in QueryInputs :
        search_contact(choice, raw_query)

\* choice '4' with the lines typed at the prompts of update_contact
update_contact(choice, raw_name, raw_phone, raw_email, raw_address) ==
    LET name == strip(raw_name)
        i1 == [NoInput EXCEPT !.choice = choice]
        i2 == [i1 EXCEPT !.name = raw_name]
        i3 == [i2 EXCEPT !.phone = raw_phone, !.email = raw_email,
                         !.address = raw_address]
        at == find_contact(contacts.items, name)
        actual_name == contacts.items[at].name
        current == dict_get(contacts.items, actual_name)
    IN  /\ pc = "menu"
        /\ IF is_empty(contacts)
           THEN Return("update", i1, "no_contacts", <<>>, <<>>)
           ELSE IF contacts.type # "dict"
           THEN Crash("update", i2, "AttributeError")
           ELSE IF at = 0
           THEN Return("update", i2, "not_found", <<>>, <<>>)
           ELSE Commit("update", i3, "updated",
                       dict_set(contacts.items, actual_name,
                                updated_details(current, strip(raw_phone),
                                                strip(raw_email),
                                                strip(raw_address))))

UpdateContact ==
    \E choice \in Choices(<<52>>), raw_name \in NameInputs, raw_phone \in PhoneInputs,
       raw_email \in EmailInputs, raw_address \in AddressInputs :
        update_contact(choice, raw_name, raw_phone, raw_email, raw_address)

\* choice '5' with the lines typed at the prompts of delete_contact
delete_contact(choice, raw_name, raw_confirm) ==
    LET name == strip(raw_name)
        confirm == lower(strip(raw_confirm))
        i1 == [NoInput EXCEPT !.choice = choice]
        i2 == [i1 EXCEPT !.name = raw_name]
        i3 == [i2 EXCEPT !.confirm = raw_confirm]
        at == find_contact(contacts.items, name)
        actual_name == contacts.items[at].name
    IN  /\ pc = "menu"
        /\ IF is_empty(contacts)
           THEN Return("delete", i1, "no_contacts", <<>>, <<>>)
           ELSE IF contacts.type # "dict"
           THEN Crash("delete", i2, "AttributeError")
           ELSE IF at = 0
           THEN Return("delete", i2, "not_found", <<>>, <<>>)
           ELSE IF is_confirmed(confirm)
           THEN Commit("delete", i3, "deleted",
                       dict_del(contacts.items, actual_name))
           ELSE Return("delete", i3, "cancelled", <<>>, <<>>)

DeleteContact ==
    \E choice \in Choices(<<53>>), raw_name \in NameInputs,
       raw_confirm \in ConfirmInputs :
        delete_contact(choice, raw_name, raw_confirm)

Exit ==
    /\ pc = "menu"
    /\ \E choice \in Choices(<<54>>) :
        /\ pc' = "exited"
        /\ Report("exit", [NoInput EXCEPT !.choice = choice], "goodbye", <<>>, <<>>)
        /\ UNCHANGED <<file, contacts>>

InvalidChoice ==
    /\ pc = "menu"
    /\ \E choice \in ChoiceInputs :
        /\ strip(choice) \notin {<<49>>, <<50>>, <<51>>, <<52>>, <<53>>, <<54>>}
        /\ Return("invalid", [NoInput EXCEPT !.choice = choice], "invalid_choice",
                  <<>>, <<>>)

\* input("\nPress Enter to continue...") : the line read is discarded, the
\* menu is displayed again; the last message of the handler stays the last
PressEnter ==
    /\ pc = "continue"
    /\ pc' = "menu"
    /\ Report("enter", NoInput, outcome, <<>>, <<>>)
    /\ UNCHANGED <<file, contacts>>

Next ==
    \/ Load
    \/ AddContact
    \/ ViewContacts
    \/ SearchContact
    \/ UpdateContact
    \/ DeleteContact
    \/ Exit
    \/ InvalidChoice
    \/ PressEnter

Spec == Init /\ [][Next]_vars

----------------------------------------------------------------------------
(* Vocabulary of the properties *)

IsDict == contacts.type = "dict"

\* no two keys are equal under case-insensitive comparison
CaseUnique(items) ==
    \A i, j \in 1..Len(items) :
        i # j => lower(items[i].name) # lower(items[j].name)

\* the store is what the data model calls a ContactStore
WellFormed == IsDict /\ CaseUnique(contacts.items)

\* the positions of the keys equal to name ignoring case
Holders(name) ==
    IF IsDict
    THEN {k \in 1..Len(contacts.items) : lower(contacts.items[k].name) = lower(name)}
    ELSE {}

\* the r-th smallest element of a set of positions
Nth(S, r) == CHOOSE i \in S : Cardinality({j \in S : j < i}) = r - 1

ValidationErrors == {"name_empty", "duplicate", "phone_required", "query_empty"}

Successes == {"added", "updated", "deleted"}

OnlyNameAsked ==
    /\ inp'.phone = NotAsked
    /\ inp'.email = NotAsked
    /\ inp'.address = NotAsked
    /\ inp'.confirm = NotAsked

----------------------------------------------------------------------------
(* C1 *)

\* C1: in every state from the end of load_contacts on, no two stored keys
\* are equal under case-insensitive comparison.
C1_NoCaseDuplicateKeys ==
    (pc # "load" /\ IsDict) => CaseUnique(contacts.items)

\* C1, the part the handlers enforce: add, update and delete never
\* introduce a case-insensitive duplicate into a dict that has none.
C1_HandlersKeepKeysUnique ==
    [][(pc # "load" /\ WellFormed) => (IsDict' /\ CaseUnique(contacts'.items))]_vars

----------------------------------------------------------------------------
(* C2 *)

\* C2: when an add, update or confirmed delete has completed, the file
\* holds the entire in-memory store while the program waits for the next
\* input: the file is a JSON object whose members are the items of the
\* dict, and loading it gives the dict back.
C2_FileHoldsStoreAfterSuccess ==
    (pc \in {"continue", "menu"} /\ outcome \in Successes) =>
        /\ IsDict
        /\ file.kind = "object"
        /\ file.members = contacts.items
        /\ json_load(file) = contacts

\* C2 witness: the menu is about to be read after an update of a store of
\* two contacts, and the file holds both.
C2_Witness ==
    /\ pc = "menu"
    /\ outcome = "updated"
    /\ IsDict
    /\ Len(contacts.items) = 2
    /\ file.kind = "object"
    /\ Len(file.members) = 2

----------------------------------------------------------------------------
(* C3 *)

C3_Step(assume) ==
    (pc = "menu" /\ op' = "add") =>
      \A p \in PhoneInputs, e \in EmailInputs, a \in AddressInputs :
        ( /\ assume
          /\ \/ strip(inp'.name) = <<>>
             \/ Holders(strip(inp'.name)) # {}
             \/ strip(p) = <<>>
          /\ add_contact(inp'.choice, inp'.name, p, e, a) )
        => /\ outcome' \in {"name_empty", "duplicate", "phone_required"}
           /\ pc' = "continue"
           /\ UNCHANGED <<contacts, file>>

\* C3: an add whose trimmed name is empty, or whose name equals an existing
\* key ignoring case, or whose trimmed phone is empty, is rejected with a
\* validation error and leaves the store and the file unchanged.
C3_InvalidAddRejected == [][C3_Step(TRUE)]_vars

\* C3 restricted to a store that is a dict.
C3_InvalidAddRejectedOnDict == [][C3_Step(IsDict)]_vars

----------------------------------------------------------------------------
(* C4 *)

C4_Step(assume) ==
    (pc = "menu" /\ op' = "update" /\ inp'.name # NotAsked) =>
      \A k \in Holders(strip(inp'.name)) :
        assume
        => LET p == inp'.phone
               e == inp'.email
               a == inp'.address
               old == contacts.items[k].details
               new == contacts'.items[k].details
           IN  /\ outcome' = "updated"
               /\ p \in PhoneInputs /\ e \in EmailInputs /\ a \in AddressInputs
               /\ IsDict'
               /\ keys(contacts'.items) = keys(contacts.items)
               /\ new.phone = (IF strip(p) = <<>> THEN old.phone ELSE strip(p))
               /\ new.email = (IF strip(e) = <<>> THEN old.email ELSE strip(e))
               /\ new.address = (IF strip(a) = <<>> THEN old.address ELSE strip(a))
               /\ \A j \in 1..Len(contacts.items) :
                    j # k => contacts'.items[j] = contacts.items[j]

\* C4: an update addressed to a contact by any letter-case variant of its
\* stored name replaces, in that contact only, exactly the fields whose new
\* value is non-empty after trimming; the keys, their casing and order and
\* every other contact are unchanged.
C4_UpdateTouchesAddressedContactOnly == [][C4_Step(TRUE)]_vars

\* C4 restricted to a store whose keys are unique ignoring case.
C4_UpdateOnCaseUniqueStore == [][C4_Step(WellFormed)]_vars

----------------------------------------------------------------------------
(* C5 *)

C5_Step(assume) ==
    (pc = "menu" /\ op' = "delete" /\ inp'.name # NotAsked) =>
      \A k \in Holders(strip(inp'.name)) :
        assume
        => IF inp'.confirm # NotAsked
              /\ lower(strip(inp'.confirm)) \in {<<121>>, <<121, 101, 115>>}
           THEN /\ outcome' = "deleted"
                /\ IsDict'
                /\ contacts'.items =
                     SubSeq(contacts.items, 1, k - 1)
                        \o SubSeq(contacts.items, k + 1, Len(contacts.items))
                /\ \A j \in 1..Len(contacts'.items) :
                     lower(contacts'.items[j].name) # lower(strip(inp'.name))
           ELSE /\ outcome' = "cancelled"
                /\ inp'.confirm # NotAsked
                /\ pc' = "continue"
                /\ UNCHANGED <<contacts, file>>

\* C5: a delete addressed to an existing contact by any letter-case variant
\* of its stored name removes that contact and only that contact exactly
\* when the confirmation, trimmed and lowercased, is "y" or "yes", and then
\* no key equals the name in any casing; with any other confirmation the
\* store and the file are unchanged and the outcome is a cancellation.
C5_DeleteRemovesAddressedContactOnly == [][C5_Step(TRUE)]_vars

\* C5 restricted to a store whose keys are unique ignoring case.
C5_DeleteOnCaseUniqueStore == [][C5_Step(WellFormed)]_vars

----------------------------------------------------------------------------
(* C6 *)

C6_NotFound ==
    /\ outcome' = "not_found"
    /\ pc' = "continue"
    /\ OnlyNameAsked
    /\ UNCHANGED <<contacts, file>>

\* the handler reads the name only when the store is not empty: n ranges
\* over the names the user may be about to type
C6_Step(assume, result) ==
    (pc = "menu" /\ op' \in {"update", "delete"}) =>
      \A n \in NameInputs :
        ( /\ assume
          /\ inp'.name \in {n, NotAsked}
          /\ Holders(strip(n)) = {} )
        => result

\* C6: in every store state, the empty store included, an update or a
\* delete whose name matches no stored key ignoring case fails with the
\* not-found error, asks for no field value and no confirmation, and leaves
\* the store and the file unchanged.
C6_UnknownNameNotFound == [][C6_Step(TRUE, C6_NotFound)]_vars

\* C6 restricted to a non-empty dict.
C6_UnknownNameNotFoundOnNonEmptyDict ==
    [][C6_Step(IsDict /\ ~is_empty(contacts), C6_NotFound)]_vars

\* C6 on the empty store: the handler returns at once with its
\* "No contacts to ..." notice, reads no name, changes nothing.
C6_EmptyStoreNotice ==
    [][C6_Step(is_empty(contacts),
               /\ outcome' = "no_contacts"
               /\ pc' = "continue"
               /\ inp'.name = NotAsked
               /\ OnlyNameAsked
               /\ UNCHANGED <<contacts, file>>)]_vars

----------------------------------------------------------------------------
(* C7 *)

\* C7: load surfaces no error and leaves the store a mapping, which is
\* empty unless the file is a well-formed object of contacts.
C7_LoadNeverFailsStoreIsMapping ==
    op = "load" =>
        /\ pc # "crashed"
        /\ IsDict
        /\ (file.kind # "object" => contacts.items = <<>>)

\* C7, the part load_contacts implements: a missing file and a file that is
\* not JSON leave the store an empty dict and raise nothing.
C7_MissingOrUnparseableGivesEmptyDict ==
    (op = "load" /\ file.kind \in {"missing", "unparseable"}) =>
        /\ pc = "menu"
        /\ IsDict
        /\ contacts.items = <<>>

----------------------------------------------------------------------------
(* C8 *)

\* the positions search must return for the lowercased query q
C8_Expected(q) ==
    {i \in 1..Len(contacts.items) :
        \/ contains(q, lower(contacts.items[i].name))
        \/ contains(q, contacts.items[i].details.phone)
        \/ contains(q, lower(contacts.items[i].details.email))}

C8_Step(assume) ==
    ( /\ pc = "menu"
      /\ op' = "search"
      /\ inp'.query # NotAsked
      /\ assume
      /\ lower(strip(inp'.query)) # <<>> )
        => /\ pc' = "continue"
           /\ UNCHANGED <<contacts, file>>
           /\ IF IsDict
              THEN LET want == C8_Expected(lower(strip(inp'.query)))
                   IN  /\ Len(shown') = Cardinality(want)
                       /\ \A r \in 1..Len(shown') :
                            shown'[r] = contacts.items[Nth(want, r)]
              ELSE shown' = <<>>

\* C8: for every non-empty query and every store, search returns exactly
\* the contacts whose lowercased name, raw phone or lowercased email
\* contains the lowercased query, each once, in the iteration order of the
\* mapping, and changes neither the store nor the file.
C8_SearchReturnsExactlyTheMatches == [][C8_Step(TRUE)]_vars

\* C8 restricted to a store that is a dict.
C8_SearchOnDict == [][C8_Step(IsDict)]_vars

----------------------------------------------------------------------------
(* C9 *)

C9_Step(assume, total) ==
    (pc = "menu" /\ op' = "view" /\ assume)
        => /\ pc' = "continue"
           /\ UNCHANGED <<contacts, file>>
           /\ count' = total
           /\ Len(shown') = Len(contacts.items)
           /\ Range(shown') = Range(contacts.items)
           /\ \A r \in 1..(Len(shown') - 1) :
                StrLess(shown'[r].name, shown'[r + 1].name)

\* C9: viewAll lists every stored contact exactly once in ascending
\* case-sensitive order of the key, reports a total equal to the number of
\* contacts in the store, and changes neither the store nor the file.
C9_ViewListsAllSortedWithTotal ==
    [][C9_Step(TRUE, <<Len(contacts.items)>>)]_vars

\* C9 restricted to a non-empty dict.
C9_ViewOnNonEmptyDict ==
    [][C9_Step(IsDict /\ ~is_empty(contacts), <<Len(contacts.items)>>)]_vars

\* C9 on the empty store: nothing is listed and no total is printed.
C9_ViewOnEmptyStore ==
    [][C9_Step(is_empty(contacts), <<>>)]_vars

----------------------------------------------------------------------------
(* C10 *)

C10_Step(assume) ==
    /\ (assume /\ pc = "menu") =>
          /\ pc' \in {"continue", "exited"}
          /\ pc' = "exited" <=> strip(inp'.choice) = <<54>>
    /\ (assume /\ pc = "continue") => pc' = "menu"
    /\ pc = "exited" => pc' = "exited"

\* C10: in the menu loop every handler returns to the continue prompt and
\* the prompt returns to the menu; the loop ends only by the choice "6",
\* and the choice "6" always ends it.
C10_LoopEndsOnlyOnSix == [][C10_Step(TRUE)]_vars

\* C10 restricted to a store that is a dict.
C10_LoopEndsOnlyOnSixOnDict == [][C10_Step(IsDict)]_vars

\* C10, the error outcomes: after a validation error, a not-found error or
\* an unrecognised choice the program is at the continue prompt.
C10_ErrorsDoNotTerminate ==
    (outcome \in ValidationErrors \cup {"not_found", "invalid_choice"}) =>
        pc \in {"continue", "menu", "exited"}

====
